---- MODULE Spec2Model ----
(***************************************************************************)
(* The fragment registry (FragmentManager), the group transform engine     *)
(* (GroupManager), the fragment pose record they act on, and the export    *)
(* pipeline (PyramidalExporter) that renders the registry's fragments.     *)
(*                                                                         *)
(* Every public method is a pure operator from the object's state (and the *)
(* call's arguments) to a call result [s, emits, ret]: the state after the *)
(* call, the number of fragments_changed notifications the call emitted    *)
(* and the value it returned.  One action per method applies the operator  *)
(* to the variables and records the call in `last`.                        *)
(*                                                                         *)
(* Numbers.  Positions and sizes are counted in twelfths of a level-0      *)
(* pixel, so that the halves (bounding-box centres) and the means over two *)
(* or three members (group centroid) the code computes are whole numbers   *)
(* of units; OnGrid guards the calls whose quotients would leave the grid. *)
(* Rotations are degrees.  Angles are multiples of 90 degrees, for which   *)
(* the sine and the cosine are 0, 1 or -1 and the rotated bounding box is  *)
(* exact; math.cos(math.radians(90)) = 6.1e-17 is taken as 0.              *)
(***************************************************************************)
EXTENDS Integers, Sequences, FiniteSets, TLC

VARIABLES
    fragments,              \* FragmentManager._fragments: the dict, as the sequence of its values in insertion order
    selected_fragment_id,   \* FragmentManager._selected_fragment_id (None or an id)
    group_selection,        \* FragmentManager._group_selection (a list of ids)
    gm_selected,            \* GroupManager._selected_fragment_ids (a list of ids)
    created,                \* number of Fragment objects constructed so far (the id generator)
    saved,                  \* the last record returned by export_metadata, kept by the caller
    exported,               \* the registry as it was when that record was returned
    last,                   \* the last call: method, arguments, result, and the state before it
    steps,                  \* number of calls made (bounded specifications only)
    job,                    \* PyramidalExporter: the arguments of the export call and what its collaborators will do
    pc,                     \* PyramidalExporter: where the export call is
    level_index,            \* i of `for i, level in enumerate(selected_levels)`
    level_images,           \* level_images: the composites rendered so far, by level
    trace,                  \* what the call has done to its collaborators so far, in order
    output_file,            \* what is on disk at output_path
    outcome,                \* what export_pyramidal_tiff returned
    canvas,                 \* the composite array of one level: a row of (value, alpha) pixels
    blend                   \* the last _composite_fragment_corrected call and the canvas before it

\* The variables of an export call.
xvars == <<job, pc, level_index, level_images, trace, output_file, outcome>>

\* The variables of the compositing of one level.
cvars == <<canvas, blend>>

vars == <<fragments, selected_fragment_id, group_selection, gm_selected, created, saved, exported, last, steps,
          job, pc, level_index, level_images, trace, output_file, outcome, canvas, blend>>

----------------------------------------------------------------------------
(* Bounds *)

\* Number of fragments ever added to one registry.
MaxFrags == 2
\* Longest id list handed to select_group.
MaxIdList == 2
\* Number of calls in one behaviour of the bounded specifications.
MaxSteps == 3

\* Python's None for an optional id; real ids are 1, 2, ...
None == 0
\* The ids a caller may pass: every id ever created, and one that never is.
UnknownId == MaxFrags + 1
IdArgs == 1..UnknownId

RECURSIVE SeqsUpTo(_, _)
SeqsUpTo(S, n) ==
    IF n = 0 THEN {<<>>}
    ELSE LET shorter == SeqsUpTo(S, n - 1)
         IN  shorter \cup {Append(q, e) : q \in {r \in shorter : Len(r) = n - 1}, e \in S}

\* The id lists a caller may pass: repeated and unknown ids included.
IdLists == SeqsUpTo(IdArgs, MaxIdList)

Range(q) == {q[i] : i \in 1..Len(q)}

----------------------------------------------------------------------------
(* Fragment: the pose record.  fragment.py is not among the sources; the   *)
(* constructor defaults, get_bounding_box, reset_transform, to_dict and    *)
(* from_dict follow sections 3, 4.1, 4.2 and 6 of the specification.       *)

\* original_size of the image loaded for the fragment with this id, (width,
\* height) in units: a tall one, a wide one, a square one, and so on.
ImageSize(id) ==
    CASE id % 3 = 1 -> <<24, 48>>
      [] id % 3 = 2 -> <<48, 24>>
      [] OTHER -> <<48, 48>>

\* Fragment(name, image_data, file_path): default pose, a fresh id.
Fragment(id) ==
    [id |-> id, x |-> 0, y |-> 0, rotation |-> 0,
     flip_horizontal |-> FALSE, flip_vertical |-> FALSE,
     visible |-> TRUE, selected |-> FALSE,
     w |-> ImageSize(id)[1], h |-> ImageSize(id)[2]]

Abs(n) == IF n < 0 THEN -n ELSE n

\* math.cos / math.sin of math.radians(angle), angle a multiple of 90.
Cos90(angle) == CASE angle % 360 = 0 -> 1 [] angle % 360 = 180 -> -1 [] OTHER -> 0
Sin90(angle) == CASE angle % 360 = 90 -> 1 [] angle % 360 = 270 -> -1 [] OTHER -> 0

\* Fragment.get_bounding_box(): (x, y, w', h'), the rotated-rectangle bound.
get_bounding_box(f) ==
    <<f.x, f.y,
      Abs(f.w * Cos90(f.rotation)) + Abs(f.h * Sin90(f.rotation)),
      Abs(f.w * Sin90(f.rotation)) + Abs(f.h * Cos90(f.rotation))>>

\* Fragment.reset_transform(): rotation and flips back to default, x and y kept.
reset_transform(f) ==
    [f EXCEPT !.rotation = 0, !.flip_horizontal = FALSE, !.flip_vertical = FALSE]

----------------------------------------------------------------------------
(* The registry's dict, as a sequence of fragments in insertion order *)

\* fragment_id in self._fragments
Has(F, fragment_id) == \E i \in 1..Len(F) : F[i].id = fragment_id

\* self._fragments[fragment_id]
Get(F, fragment_id) == F[CHOOSE i \in 1..Len(F) : F[i].id = fragment_id]

\* list(self._fragments.keys())
Keys(F) == [i \in 1..Len(F) |-> F[i].id]

\* self._fragments[f.id] = f: a new key goes last, an old key keeps its place.
Put(F, f) ==
    IF Has(F, f.id) THEN [i \in 1..Len(F) |-> IF F[i].id = f.id THEN f ELSE F[i]]
    ELSE Append(F, f)

\* del self._fragments[fragment_id]
Del(F, fragment_id) == SelectSeq(F, LAMBDA f : f.id # fragment_id)

\* The FragmentManager's own state, as one record.
State == [fragments |-> fragments,
          selected_fragment_id |-> selected_fragment_id,
          group_selection |-> group_selection]

\* The result of a call: state after it, fragments_changed emissions, return value.
Result(s, emits, ret) == [s |-> s, emits |-> emits, ret |-> ret]

----------------------------------------------------------------------------
(* FragmentManager: selection management *)

_clear_all_selections(s) ==
    [fragments |-> [i \in 1..Len(s.fragments) |-> [s.fragments[i] EXCEPT !.selected = FALSE]],
     selected_fragment_id |-> None,
     group_selection |-> <<>>]

\* select_single_fragment without the clearing of the group list.
select_single_fragment_keeps_group(s, fragment_id) ==
    LET c == [_clear_all_selections(s) EXCEPT !.group_selection = s.group_selection]
    IN  IF Has(c.fragments, fragment_id)
        THEN [s |-> [c EXCEPT !.selected_fragment_id = fragment_id,
                              !.fragments = Put(c.fragments,
                                  [Get(c.fragments, fragment_id) EXCEPT !.selected = TRUE])],
              emits |-> 1, ret |-> "None"]
        ELSE [s |-> c, emits |-> 1, ret |-> "None"]

select_single_fragment(s, fragment_id) ==
    LET c == _clear_all_selections(s)
    IN  IF Has(c.fragments, fragment_id)
        THEN Result([c EXCEPT !.selected_fragment_id = fragment_id,
                              !.fragments = Put(c.fragments,
                                  [Get(c.fragments, fragment_id) EXCEPT !.selected = TRUE])],
                    1, "None")
        ELSE Result(c, 1, "None")

select_group(s, fragment_ids) ==
    LET c == _clear_all_selections(s)
        valid_ids == SelectSeq(fragment_ids, LAMBDA fid : Has(c.fragments, fid))
    IN  IF Len(valid_ids) > 1
        THEN Result([c EXCEPT !.group_selection = valid_ids,
                              !.fragments = [i \in 1..Len(c.fragments) |->
                                  IF c.fragments[i].id \in Range(valid_ids)
                                  THEN [c.fragments[i] EXCEPT !.selected = TRUE]
                                  ELSE c.fragments[i]]],
                    1, "None")
        ELSE IF Len(valid_ids) = 1
        THEN select_single_fragment(c, valid_ids[1])
        ELSE Result(c, 1, "None")

clear_selection(s) == Result(_clear_all_selections(s), 1, "None")

set_selected_fragment(s, fragment_id) ==
    IF fragment_id # None THEN select_single_fragment(s, fragment_id)
    ELSE clear_selection(s)

has_group_selection(s) == Len(s.group_selection) > 1

has_single_selection(s) == s.selected_fragment_id # None

get_selected_fragment_ids(s) ==
    IF has_group_selection(s) THEN s.group_selection
    ELSE IF has_single_selection(s) THEN <<s.selected_fragment_id>>
    ELSE <<>>

\* get_selected_fragments(), as the ids of the fragments it returns, in order.
get_selected_fragments(s) ==
    SelectSeq(get_selected_fragment_ids(s), LAMBDA fid : Has(s.fragments, fid))

----------------------------------------------------------------------------
(* FragmentManager: transformations *)

\* The registry with the fragment f in the place of the one of its id.
Update(s, f) == [s EXCEPT !.fragments = Put(s.fragments, f)]

RECURSIVE SumSeq(_)
SumSeq(q) == IF q = <<>> THEN 0 ELSE Head(q) + SumSeq(Tail(q))

\* bbox[0] + bbox[2] / 2 and bbox[1] + bbox[3] / 2 of fragment.get_bounding_box()
center_x(f) == get_bounding_box(f)[1] + get_bounding_box(f)[3] \div 2
center_y(f) == get_bounding_box(f)[2] + get_bounding_box(f)[4] \div 2

\* total_x / len(fragments), total_y / len(fragments) over the list of members
group_center_x(F, ids) == SumSeq([i \in 1..Len(ids) |-> center_x(Get(F, ids[i]))]) \div Len(ids)
group_center_y(F, ids) == SumSeq([i \in 1..Len(ids) |-> center_y(Get(F, ids[i]))]) \div Len(ids)

\* The quotients of the group centre are whole numbers of units.
OnGrid(F, ids) ==
    /\ SumSeq([i \in 1..Len(ids) |-> center_x(Get(F, ids[i]))]) % Len(ids) = 0
    /\ SumSeq([i \in 1..Len(ids) |-> center_y(Get(F, ids[i]))]) % Len(ids) = 0

\* One pass of the loop `for fragment in fragments` of apply_group_rotation:
\* the fragment spins by the angle and its centre orbits the group centre.
rotate_member(f, group_center_x_, group_center_y_, angle_degrees) ==
    LET cos_a == Cos90(angle_degrees)
        sin_a == Sin90(angle_degrees)
        frag_center_x == center_x(f)
        frag_center_y == center_y(f)
        spun == [f EXCEPT !.rotation = (f.rotation + angle_degrees) % 360]
        rel_x == frag_center_x - group_center_x_
        rel_y == frag_center_y - group_center_y_
        new_rel_x == rel_x * cos_a - rel_y * sin_a
        new_rel_y == rel_x * sin_a + rel_y * cos_a
        new_center_x == group_center_x_ + new_rel_x
        new_center_y == group_center_y_ + new_rel_y
        new_bbox == get_bounding_box(spun)
    IN  [spun EXCEPT !.x = new_center_x - new_bbox[3] \div 2,
                     !.y = new_center_y - new_bbox[4] \div 2]

RECURSIVE rotate_members(_, _, _, _, _)
\* The loop over the list get_selected_fragments() returned, in list order; a
\* fragment the list holds twice is visited twice.
rotate_members(F, ids, gcx, gcy, angle_degrees) ==
    IF ids = <<>> THEN F
    ELSE rotate_members(Put(F, rotate_member(Get(F, Head(ids)), gcx, gcy, angle_degrees)),
                        Tail(ids), gcx, gcy, angle_degrees)

apply_group_rotation(s, angle_degrees) ==
    IF ~has_group_selection(s) THEN Result(s, 0, "None")
    ELSE LET members == get_selected_fragments(s)
         IN  IF Len(members) < 2 THEN Result(s, 0, "None")
             ELSE Result([s EXCEPT !.fragments =
                              rotate_members(s.fragments, members,
                                             group_center_x(s.fragments, members),
                                             group_center_y(s.fragments, members),
                                             angle_degrees)],
                         1, "None")

RECURSIVE translate_members(_, _, _, _)
\* for fragment in fragments: fragment.x += dx; fragment.y += dy
translate_members(F, ids, dx, dy) ==
    IF ids = <<>> THEN F
    ELSE LET f == Get(F, Head(ids))
         IN  translate_members(Put(F, [f EXCEPT !.x = f.x + dx, !.y = f.y + dy]),
                               Tail(ids), dx, dy)

apply_group_translation(s, dx, dy) ==
    IF ~has_group_selection(s) THEN Result(s, 0, "None")
    ELSE LET members == get_selected_fragments(s)
         IN  IF Len(members) < 2 THEN Result(s, 0, "None")
             ELSE Result([s EXCEPT !.fragments = translate_members(s.fragments, members, dx, dy)],
                         1, "None")

apply_single_rotation(s, angle_degrees) ==
    IF ~has_single_selection(s) THEN Result(s, 0, "None")
    ELSE IF Has(s.fragments, s.selected_fragment_id)
    THEN Result(Update(s,
                       LET f == Get(s.fragments, s.selected_fragment_id) IN [f EXCEPT !.rotation = (f.rotation + angle_degrees) % 360]),
                1, "None")
    ELSE Result(s, 0, "None")

apply_single_translation(s, dx, dy) ==
    IF ~has_single_selection(s) THEN Result(s, 0, "None")
    ELSE IF Has(s.fragments, s.selected_fragment_id)
    THEN Result(Update(s,
                       LET f == Get(s.fragments, s.selected_fragment_id) IN [f EXCEPT !.x = f.x + dx, !.y = f.y + dy]),
                1, "None")
    ELSE Result(s, 0, "None")

set_fragment_visibility(s, fragment_id, visible) ==
    IF Has(s.fragments, fragment_id)
    THEN Result(Update(s, LET f == Get(s.fragments, fragment_id) IN [f EXCEPT !.visible = visible]), 1, "None")
    ELSE Result(s, 0, "None")

set_fragment_position(s, fragment_id, x, y) ==
    IF Has(s.fragments, fragment_id)
    THEN Result(Update(s, LET f == Get(s.fragments, fragment_id) IN [f EXCEPT !.x = x, !.y = y]), 1, "None")
    ELSE Result(s, 0, "None")

\* translate_fragment with the emit outside the `if fragment:` block.
translate_fragment_always_emits(s, fragment_id, dx, dy) ==
    IF Has(s.fragments, fragment_id)
    THEN Result(Update(s, LET f == Get(s.fragments, fragment_id) IN [f EXCEPT !.x = f.x + dx, !.y = f.y + dy]),
                1, "None")
    ELSE Result(s, 1, "None")

translate_fragment(s, fragment_id, dx, dy) ==
    IF Has(s.fragments, fragment_id)
    THEN Result(Update(s, LET f == Get(s.fragments, fragment_id) IN [f EXCEPT !.x = f.x + dx, !.y = f.y + dy]),
                1, "None")
    ELSE Result(s, 0, "None")

rotate_fragment(s, fragment_id, angle) ==
    IF Has(s.fragments, fragment_id)
    THEN Result(Update(s,
                       LET f == Get(s.fragments, fragment_id) IN [f EXCEPT !.rotation = (f.rotation + angle) % 360]),
                1, "None")
    ELSE Result(s, 0, "None")

\* A float angle argument: deg degrees or, with tiny = -1, a negative float
\* smaller in magnitude than half the spacing of the doubles below 360.0
\* (such as -1e-17).
FloatAngle(deg, tiny) == [deg |-> deg, tiny |-> tiny]

\* angle % 360.0 on Python floats: r = fmod(angle, 360.0) has the sign of
\* angle, and a non-zero r below zero is replaced by the double nearest to
\* r + 360.0, which for the tiny negative angle is 360.0 itself.
float_mod_360(angle) ==
    IF angle.tiny = 0 THEN angle.deg % 360 ELSE 360

set_fragment_rotation(s, fragment_id, angle) ==
    IF Has(s.fragments, fragment_id)
    THEN Result(Update(s, LET f == Get(s.fragments, fragment_id) IN [f EXCEPT !.rotation = float_mod_360(angle)]),
                1, "None")
    ELSE Result(s, 0, "None")

flip_fragment(s, fragment_id, horizontal) ==
    IF Has(s.fragments, fragment_id)
    THEN Result(Update(s,
                       LET f == Get(s.fragments, fragment_id) IN IF horizontal
                                  THEN [f EXCEPT !.flip_horizontal = ~f.flip_horizontal]
                                  ELSE [f EXCEPT !.flip_vertical = ~f.flip_vertical]),
                1, "None")
    ELSE Result(s, 0, "None")

\* The optional arguments of set_fragment_transform: has_* is `is not None`.
TransformArgs(has_rotation, rotation, has_translation, tx, ty, flip_horizontal, flip_vertical) ==
    [has_rotation |-> has_rotation, rotation |-> rotation,
     has_translation |-> has_translation, tx |-> tx, ty |-> ty,
     flip_horizontal |-> flip_horizontal, flip_vertical |-> flip_vertical]

\* flip_horizontal / flip_vertical: "None", "True" or "False".
set_fragment_transform(s, fragment_id, t) ==
    IF Has(s.fragments, fragment_id)
    THEN Result(Update(s,
                       LET f == Get(s.fragments, fragment_id) IN [f EXCEPT
                           !.rotation = IF t.has_rotation THEN t.rotation % 360 ELSE @,
                           !.x = IF t.has_translation THEN t.tx ELSE @,
                           !.y = IF t.has_translation THEN t.ty ELSE @,
                           !.flip_horizontal = IF t.flip_horizontal # "None"
                                               THEN t.flip_horizontal = "True" ELSE @,
                           !.flip_vertical = IF t.flip_vertical # "None"
                                             THEN t.flip_vertical = "True" ELSE @]),
                1, "None")
    ELSE Result(s, 0, "None")

reset_fragment_transform(s, fragment_id) ==
    IF Has(s.fragments, fragment_id)
    THEN Result(Update(s, reset_transform(Get(s.fragments, fragment_id))), 1, "None")
    ELSE Result(s, 0, "None")

reset_all_transforms(s) ==
    Result([s EXCEPT !.fragments = [i \in 1..Len(s.fragments) |-> reset_transform(s.fragments[i])]],
           1, "None")

\* [f for f in self._fragments.values() if f.visible]
get_visible_fragments(s) == SelectSeq(s.fragments, LAMBDA f : f.visible)

RECURSIVE bounds_loop(_, _)
\* The loop of get_composite_bounds over the fragments still to visit, with
\* the running (min_x, min_y, max_x, max_y).
bounds_loop(rest, acc) ==
    IF rest = <<>> THEN acc
    ELSE LET bbox == get_bounding_box(Head(rest))
             lo(a, b) == IF a < b THEN a ELSE b
             hi(a, b) == IF a > b THEN a ELSE b
         IN  bounds_loop(Tail(rest),
                         <<lo(acc[1], bbox[1]), lo(acc[2], bbox[2]),
                           hi(acc[3], bbox[1] + bbox[3]), hi(acc[4], bbox[2] + bbox[4])>>)

\* get_composite_bounds over every fragment of the registry, visible or not.
get_composite_bounds_of_all(s) ==
    IF s.fragments = <<>> THEN <<0, 0, 0, 0>>
    ELSE LET first == get_bounding_box(Head(s.fragments))
         IN  bounds_loop(Tail(s.fragments),
                         <<first[1], first[2], first[1] + first[3], first[2] + first[4]>>)

\* min(inf, v) = v and max(-inf, v) = v: the first visible fragment sets the
\* running bounds, the others widen them.
get_composite_bounds(s) ==
    IF s.fragments = <<>> THEN <<0, 0, 0, 0>>
    ELSE LET visible_fragments == get_visible_fragments(s)
         IN  IF visible_fragments = <<>> THEN <<0, 0, 0, 0>>
             ELSE LET first == get_bounding_box(Head(visible_fragments))
                  IN  bounds_loop(Tail(visible_fragments),
                                  <<first[1], first[2],
                                    first[1] + first[3], first[2] + first[4]>>)

----------------------------------------------------------------------------
(* GroupManager: it holds its own id list and is handed the registry's     *)
(* fragments (get_all_fragments()), which it changes in place.  It emits   *)
(* group_changed only, never fragments_changed.                            *)

gm_set_selected_fragments(fragment_ids) == fragment_ids

gm_clear_selection == <<>>

gm_has_group_selection(ids) == Len(ids) > 1

\* [f for f in fragments if f.id in self._selected_fragment_ids], as ids
gm_selected_fragments(F, ids) ==
    SelectSeq(Keys(F), LAMBDA fid : fid \in Range(ids))

\* GroupManager._calculate_group_center(fragments)
_calculate_group_center(F, members) ==
    <<SumSeq([i \in 1..Len(members) |-> center_x(Get(F, members[i]))]) \div Len(members),
      SumSeq([i \in 1..Len(members) |-> center_y(Get(F, members[i]))]) \div Len(members)>>

\* One pass of the loop `for fragment in selected_fragments` of rotate_group.
gm_rotate_member(f, group_center, angle_degrees) ==
    LET cos_a == Cos90(angle_degrees)
        sin_a == Sin90(angle_degrees)
        frag_center_x == center_x(f)
        frag_center_y == center_y(f)
        spun == [f EXCEPT !.rotation = (f.rotation + angle_degrees) % 360]
        rel_x == frag_center_x - group_center[1]
        rel_y == frag_center_y - group_center[2]
        new_rel_x == rel_x * cos_a - rel_y * sin_a
        new_rel_y == rel_x * sin_a + rel_y * cos_a
        new_center_x == group_center[1] + new_rel_x
        new_center_y == group_center[2] + new_rel_y
        new_bbox == get_bounding_box(spun)
    IN  [spun EXCEPT !.x = new_center_x - new_bbox[3] \div 2,
                     !.y = new_center_y - new_bbox[4] \div 2]

RECURSIVE gm_rotate_members(_, _, _, _)
gm_rotate_members(F, members, group_center, angle_degrees) ==
    IF members = <<>> THEN F
    ELSE gm_rotate_members(Put(F, gm_rotate_member(Get(F, Head(members)), group_center, angle_degrees)),
                           Tail(members), group_center, angle_degrees)

\* rotate_group(fragments, angle_degrees): the registry's fragments afterwards.
rotate_group(ids, F, angle_degrees) ==
    IF ~gm_has_group_selection(ids) THEN F
    ELSE LET selected_fragments == gm_selected_fragments(F, ids)
         IN  IF Len(selected_fragments) < 2 THEN F
             ELSE gm_rotate_members(F, selected_fragments,
                                    _calculate_group_center(F, selected_fragments),
                                    angle_degrees)

\* translate_group(fragments, dx, dy): the registry's fragments afterwards.
translate_group(ids, F, dx, dy) ==
    IF ~gm_has_group_selection(ids) THEN F
    ELSE LET selected_fragments == gm_selected_fragments(F, ids)
         IN  IF Len(selected_fragments) < 2 THEN F
             ELSE [i \in 1..Len(F) |->
                      IF F[i].id \in Range(selected_fragments)
                      THEN [F[i] EXCEPT !.x = @ + dx, !.y = @ + dy]
                      ELSE F[i]]

----------------------------------------------------------------------------
(* FragmentManager: adding, removing, metadata *)

\* add_fragment_from_image, the new Fragment given: the first fragment of an
\* empty registry is selected through set_selected_fragment.
add_fragment_from_image(s, fragment) ==
    LET added == [s EXCEPT !.fragments = Put(s.fragments, fragment)]
    IN  IF Len(added.fragments) = 1
        THEN LET sel == set_selected_fragment(added, fragment.id)
             IN  Result(sel.s, sel.emits + 1, "id")
        ELSE Result(added, 1, "id")

\* remove_fragment without the update of the selected id.
remove_fragment_keeps_selection(s, fragment_id) ==
    IF Has(s.fragments, fragment_id)
    THEN Result([s EXCEPT !.fragments = Del(s.fragments, fragment_id)], 1, "True")
    ELSE Result(s, 0, "False")

remove_fragment(s, fragment_id) ==
    IF Has(s.fragments, fragment_id)
    THEN LET remaining == Del(s.fragments, fragment_id)
             remaining_ids == Keys(remaining)
         IN  Result([s EXCEPT !.fragments = remaining,
                              !.selected_fragment_id =
                                  IF s.selected_fragment_id = fragment_id
                                  THEN (IF remaining_ids # <<>> THEN remaining_ids[1] ELSE None)
                                  ELSE s.selected_fragment_id],
                    1, "True")
    ELSE Result(s, 0, "False")

\* Fragment.to_dict(): the persisted fields; `selected` is not one of them.
\* w and h stand for the source image the record's file_path names.
to_dict(f) ==
    [id |-> f.id, x |-> f.x, y |-> f.y, rotation |-> f.rotation,
     flip_horizontal |-> f.flip_horizontal, flip_vertical |-> f.flip_vertical,
     visible |-> f.visible, w |-> f.w, h |-> f.h]

\* Fragment.from_dict(data): a fragment with the persisted fields, not selected.
from_dict(d) ==
    [id |-> d.id, x |-> d.x, y |-> d.y, rotation |-> d.rotation,
     flip_horizontal |-> d.flip_horizontal, flip_vertical |-> d.flip_vertical,
     visible |-> d.visible, selected |-> FALSE, w |-> d.w, h |-> d.h]

NoMetadata == [fragments |-> <<>>, selected_fragment_id |-> None, version |-> "none"]

export_metadata(s) ==
    [fragments |-> [i \in 1..Len(s.fragments) |-> to_dict(s.fragments[i])],
     selected_fragment_id |-> s.selected_fragment_id,
     version |-> "1.0"]

RECURSIVE load_fragments(_, _)
\* the loop of import_metadata: self._fragments[fragment.id] = from_dict(data)
load_fragments(F, records) ==
    IF records = <<>> THEN F
    ELSE load_fragments(Put(F, from_dict(Head(records))), Tail(records))

\* import_metadata without the restoring of the selected id.
import_metadata_unselected(s, metadata) ==
    LET loaded == [s EXCEPT !.fragments = load_fragments(<<>>, metadata.fragments)]
    IN  Result(loaded, 1, "None")

import_metadata(s, metadata) ==
    LET loaded == [s EXCEPT !.fragments = load_fragments(<<>>, metadata.fragments)]
        selected_id == metadata.selected_fragment_id
    IN  IF selected_id # None /\ Has(loaded.fragments, selected_id)
        THEN LET sel == set_selected_fragment(loaded, selected_id)
             IN  Result(sel.s, sel.emits + 1, "None")
        ELSE Result(loaded, 1, "None")

----------------------------------------------------------------------------
(* PyramidalExporter: the export pipeline.  image_loader.py is not among   *)
(* the sources; the reader (ImageLoader.get_pyramid_info, load_image) and  *)
(* the file system are collaborators whose answers are part of the job.    *)

\* Deepest pyramid level a caller selects.
MaxLevel == 1
\* Longest selected_levels list.
MaxLevels == 2

\* What the source file of a fragment is to os.path.exists and to the reader:
\* readable; absent; dimensions known but pixels unreadable; pixels readable
\* but dimensions unknown; a readable single pixel.
SourceKinds == {"good", "no_file", "no_pixels", "no_dims", "tiny"}

\* os.path.exists(f.file_path)
file_exists(kind) == kind # "no_file"

\* ImageLoader.get_pyramid_info(file_path)['level_dimensions'], in pixels: the
\* levels the file itself holds.
level_dimensions(kind) ==
    IF kind = "tiny" THEN << <<1, 1>> >> ELSE << <<4, 4>>, <<2, 2>> >>

\* ImageLoader.load_image(file_path, level) is not None
load_image(kind, level) == kind # "no_pixels"

\* The levels a caller may select, and the lists of them (repeats included).
Levels == 0..MaxLevel
LevelLists == SeqsUpTo(Levels, MaxLevels)

Compressions == {"LZW", "JPEG"}
ExportMethods == {"pyvips", "tifffile", "none"}
\* The encoder writes the file, or fails after it has started writing.
Encoders == {"ok", "fails"}

\* None, for bounds, dimensions and images.
Nothing == <<>>

RECURSIVE Pow2(_)
Pow2(n) == IF n = 0 THEN 1 ELSE 2 * Pow2(n - 1)

\* progress_callback(pct, text), when a callback was given.
Progress(progress_callback, pct) ==
    IF progress_callback THEN << <<"progress", pct, 0>> >> ELSE <<>>

\* [f for f in fragments if f.visible and f.file_path and os.path.exists(f.file_path)],
\* without the test of f.visible.
visible_fragments_any(F, kinds) ==
    SelectSeq(F, LAMBDA f : file_exists(kinds[f.id]))

\* [f for f in fragments if f.visible and f.file_path and os.path.exists(f.file_path)]
visible_fragments(F, kinds) ==
    SelectSeq(F, LAMBDA f : f.visible /\ file_exists(kinds[f.id]))

_get_image_dimensions_at_level(kind, level) ==
    IF kind = "no_dims" THEN Nothing
    ELSE LET dims == level_dimensions(kind)
         IN  IF level < Len(dims) THEN dims[level + 1]
             ELSE IF dims # <<>>
                  THEN <<dims[1][1] \div Pow2(level), dims[1][2] \div Pow2(level)>>
                  ELSE Nothing

\* int(width * |cos| + height * |sin|), int(width * |sin| + height * |cos|)
_calculate_transformed_dimensions(width, height, rotation) ==
    IF rotation = 0 THEN <<width, height>>
    ELSE <<width * Abs(Cos90(rotation)) + height * Abs(Sin90(rotation)),
           width * Abs(Sin90(rotation)) + height * Abs(Cos90(rotation))>>

\* The registry keeps x and y in twelfths of a level-0 pixel; one pixel of a
\* level is this many of them (12 * downsample).  A coordinate of a level is
\* kept as the count of these units, so that fragment.x / downsample and the
\* sums and differences of the bounds are ratios of whole numbers.
Unit(level) == 12 * Pow2(level)

\* int(value) of a ratio n / d, d > 0: the fraction is dropped, towards zero.
Trunc(n, d) == IF n >= 0 THEN n \div d ELSE -((-n) \div d)

RECURSIVE level_bounds_loop(_, _, _, _)
\* The loop of _calculate_composite_bounds_at_level_corrected; acc = Nothing
\* stands for min = inf, max = -inf.  A fragment without dimensions is passed
\* over.  The bounds are counted in units of the level (see Unit).
level_bounds_loop(rest, kinds, level, acc) ==
    IF rest = <<>> THEN acc
    ELSE LET fragment == Head(rest)
             original_dims == _get_image_dimensions_at_level(kinds[fragment.id], level)
         IN  IF original_dims = Nothing
             THEN level_bounds_loop(Tail(rest), kinds, level, acc)
             ELSE LET final_dims == _calculate_transformed_dimensions(
                                        original_dims[1], original_dims[2], fragment.rotation)
                      scaled_x == fragment.x
                      scaled_y == fragment.y
                      lo(a, b) == IF a < b THEN a ELSE b
                      hi(a, b) == IF a > b THEN a ELSE b
                      box == <<scaled_x, scaled_y,
                               scaled_x + final_dims[1] * Unit(level),
                               scaled_y + final_dims[2] * Unit(level)>>
                  IN  level_bounds_loop(Tail(rest), kinds, level,
                          IF acc = Nothing THEN box
                          ELSE <<lo(acc[1], box[1]), lo(acc[2], box[2]),
                                 hi(acc[3], box[3]), hi(acc[4], box[4])>>)

_calculate_composite_bounds_at_level_corrected(F, kinds, level) ==
    IF F = <<>> THEN Nothing ELSE level_bounds_loop(F, kinds, level, Nothing)

\* _load_and_transform_fragment_corrected(fragment, level) is not None
_load_and_transform_fragment_corrected(kind, level) == load_image(kind, level)

\* The composite of one level: its size in pixels, its channels
\* (np.zeros((h, w, 4))) and the fragments composited onto it, in order, each
\* with the pose that was read from it and the place it was given.
Composite(level, width, height, placed) ==
    [level |-> level, width |-> width, height |-> height, channels |-> 4,
     composited |-> [i \in 1..Len(placed) |-> placed[i].id],
     placed |-> placed]

\* The image it returns (Nothing for None) and the loads it asked of the
\* reader.  A fragment whose load yields None is passed over; the others are
\* placed at int((fragment.x / downsample) - min_x), int((fragment.y / downsample) - min_y).
_render_composite_at_level_corrected(F, kinds, level, bounds) ==
    LET width == Trunc(bounds[3] - bounds[1], Unit(level))
        height == Trunc(bounds[4] - bounds[2], Unit(level))
        loaded == SelectSeq(F, LAMBDA f :
                      _load_and_transform_fragment_corrected(kinds[f.id], level))
    IN  IF width <= 0 \/ height <= 0 THEN [image |-> Nothing, loads |-> <<>>]
        ELSE [image |-> Composite(level, width, height,
                            [i \in 1..Len(loaded) |->
                                [id |-> loaded[i].id, x |-> loaded[i].x, y |-> loaded[i].y,
                                 rotation |-> loaded[i].rotation,
                                 flip_horizontal |-> loaded[i].flip_horizontal,
                                 flip_vertical |-> loaded[i].flip_vertical,
                                 scaled_x |-> Trunc(loaded[i].x - bounds[1], Unit(level)),
                                 scaled_y |-> Trunc(loaded[i].y - bounds[2], Unit(level))]]),
              loads |-> [i \in 1..Len(F) |-> <<"load", level, F[i].id>>]]

\* The loop over selected_levels left after its first pass.
levels_left_first_only(selected_levels, i) == i < 1

\* `for i, level in enumerate(selected_levels)`: a pass is left to make.
levels_left(selected_levels, i) == i < Len(selected_levels)

\* One pass of `for i, level in enumerate(selected_levels)` of
\* _export_with_tifffile_corrected: the image the pass stores in level_images
\* (Nothing when it stores none) and what the pass did, in order.
process_level(F, kinds, selected_levels, i, progress_callback) ==
    LET level == selected_levels[i + 1]
        total_levels == Len(selected_levels)
        progress == 10 + (i * 70) \div total_levels
        bounds == _calculate_composite_bounds_at_level_corrected(F, kinds, level)
        asked == Progress(progress_callback, progress) \o << <<"bounds", level, 0>> >>
    IN  IF bounds = Nothing THEN [image |-> Nothing, events |-> asked]
        ELSE LET rendered == _render_composite_at_level_corrected(F, kinds, level, bounds)
             IN  [image |-> rendered.image, events |-> asked \o rendered.loads]

\* compression_map.get(compression) of _save_pyramidal_tiff
compression_map(compression) ==
    CASE compression = "LZW" -> "lzw"
      [] compression = "JPEG" -> "jpeg"
      [] compression = "Deflate" -> "zlib"
      [] OTHER -> "None"

\* _rgba_to_rgb: the alpha channel flattened onto the background, 3 channels.
_rgba_to_rgb(image) == [image EXCEPT !.channels = 3]

RECURSIVE sorted(_)
\* sorted(level_images.keys())
sorted(S) ==
    IF S = {} THEN <<>>
    ELSE LET least == CHOOSE l \in S : \A m \in S : l <= m
         IN  <<least>> \o sorted(S \ {least})

\* _save_pyramidal_tiff with the test `sorted_levels == [0]` in the place of
\* `len(sorted_levels) == 1`.
_save_pyramidal_tiff_level0(images, compression, encoder) ==
    LET tiff_compression == compression_map(compression)
        sorted_levels == sorted(DOMAIN images)
        pages == [i \in 1..Len(sorted_levels) |->
                     LET image == images[sorted_levels[i]]
                     IN  IF tiff_compression = "jpeg" /\ image.channels = 4
                         THEN _rgba_to_rgb(image) ELSE image]
    IN  IF sorted_levels = <<0>>
        THEN [ok |-> IF encoder = "ok" THEN "True" ELSE "False", handed |-> <<images[sorted_levels[1]]>>,
              file |-> IF encoder = "ok" THEN "plain" ELSE "partial"]
        ELSE [ok |-> IF encoder = "ok" THEN "True" ELSE "False",
              handed |-> IF encoder = "ok" THEN pages ELSE <<pages[1]>>,
              file |-> IF encoder = "ok" THEN "pyramid" ELSE "partial"]

\* What it returns, the images it handed to the encoder, and the file it left
\* at output_path: one image through tifffile.imwrite (a plain image), or the
\* pages of a TiffWriter, the first with subifds for the others (a pyramid).
\* An encoder that fails raises after the file was opened; the handler returns
\* False and removes nothing.
_save_pyramidal_tiff(images, compression, encoder) ==
    LET tiff_compression == compression_map(compression)
        sorted_levels == sorted(DOMAIN images)
        pages == [i \in 1..Len(sorted_levels) |->
                     LET image == images[sorted_levels[i]]
                     IN  IF tiff_compression = "jpeg" /\ image.channels = 4
                         THEN _rgba_to_rgb(image) ELSE image]
    IN  IF Len(sorted_levels) = 1
        THEN [ok |-> IF encoder = "ok" THEN "True" ELSE "False", handed |-> <<images[sorted_levels[1]]>>,
              file |-> IF encoder = "ok" THEN "plain" ELSE "partial"]
        ELSE [ok |-> IF encoder = "ok" THEN "True" ELSE "False",
              handed |-> IF encoder = "ok" THEN pages ELSE <<pages[1]>>,
              file |-> IF encoder = "ok" THEN "pyramid" ELSE "partial"]

\* The exporter between two export calls.
NoJob == [fragments |-> <<>>, kinds |-> <<>>, selected_levels |-> <<>>,
          compression |-> "LZW", progress_callback |-> FALSE,
          export_method |-> "none", encoder |-> "ok"]

NoExport ==
    /\ job = NoJob
    /\ pc = "idle"
    /\ level_index = 0
    /\ level_images = <<>>
    /\ trace = <<>>
    /\ output_file = "absent"
    /\ outcome = "none"

----------------------------------------------------------------------------
(* PyramidalExporter: alpha compositing.  A canvas is a sequence of rows of *)
(* pixels, a pixel one colour value (the three colour channels are blended *)
(* alike) and an alpha, both 0..255.  Opacities are counted in halves, so  *)
(* that the quotients of the blend are ratios of whole numbers;            *)
(* astype(uint8) drops the fraction.                                       *)

\* Width of the canvas, and the longest side of a canvas of any shape.
CanvasWidth == 2
\* Number of fragments composited onto one canvas.
MaxComposites == 2

Pixel(v, a) == [v |-> v, a |-> a]

\* np.zeros((height, width, 4), dtype=np.uint8)
Zeros(height, width) == [r \in 1..height |-> [c \in 1..width |-> Pixel(0, 0)]]

\* np.clip(value, 0, 255)
Clip(value) == IF value < 0 THEN 0 ELSE IF value > 255 THEN 255 ELSE value

\* The blend of one fragment pixel over one canvas pixel, opacity = opacity2 / 2.
\* With frag_alpha = FA / 510 and comp_alpha = CA / 510:
\*   out_alpha = frag_alpha + (1 - frag_alpha) * comp_alpha
\*   out_rgb = (frag_alpha * frag_rgb + (1 - frag_alpha) * comp_rgb) / out_alpha
\*             where out_alpha > 0, else 0
blend_pixel(src, dst, opacity2) ==
    LET FA == src.a * opacity2
        CA == 2 * dst.a
        out_alpha == FA * 510 + (510 - FA) * CA
        out_rgb == IF out_alpha > 0
                   THEN ((FA * src.v + (510 - FA) * dst.v) * 510) \div out_alpha
                   ELSE 0
    IN  Pixel(Clip(out_rgb), Clip((out_alpha * 255) \div (510 * 510)))

\* The intersection along one axis, without the clipping of the source range
\* to the canvas.
intersection_unclipped(frag_len, comp_len, offset) ==
    LET src1 == IF -offset > 0 THEN -offset ELSE 0
        src2 == frag_len
        dst1 == IF offset > 0 THEN offset ELSE 0
    IN  [src1 |-> src1, src2 |-> src2, dst1 |-> dst1, dst2 |-> dst1 + (src2 - src1)]

\* "Calculate intersection" along one axis (the code computes the x and the y
\* ranges alike): the half-open ranges [src1, src2) of the fragment and
\* [dst1, dst2) of the canvas, 0-based.
intersection(frag_len, comp_len, offset) ==
    LET src1 == IF -offset > 0 THEN -offset ELSE 0
        src2 == IF frag_len < comp_len - offset THEN frag_len ELSE comp_len - offset
        dst1 == IF offset > 0 THEN offset ELSE 0
    IN  [src1 |-> src1, src2 |-> src2, dst1 |-> dst1, dst2 |-> dst1 + (src2 - src1)]

\* _composite_fragment_corrected: the fragment placed at (x, y) (0-based) is
\* blended pixel by pixel into the canvas region it intersects; an empty
\* intersection returns at once.
_composite_fragment_corrected(composite, fragment_image, x, y, opacity2) ==
    LET frag_h == Len(fragment_image)
        frag_w == Len(fragment_image[1])
        comp_h == Len(composite)
        comp_w == Len(composite[1])
        cols == intersection(frag_w, comp_w, x)
        rows == intersection(frag_h, comp_h, y)
    IN  IF cols.src2 <= cols.src1 \/ rows.src2 <= rows.src1 THEN composite
        ELSE [r \in 1..comp_h |-> [c \in 1..comp_w |->
                 IF /\ rows.dst1 < r /\ r <= rows.dst2
                    /\ cols.dst1 < c /\ c <= cols.dst2
                 THEN blend_pixel(fragment_image[rows.src1 + (r - rows.dst1)]
                                                [cols.src1 + (c - cols.dst1)],
                                  composite[r][c], opacity2)
                 ELSE composite[r][c]]]

NoBlend == [pre |-> <<>>, fragment_image |-> <<>>, x |-> 0, y |-> 0, opacity2 |-> 0]

NoComposite ==
    /\ canvas = <<>>
    /\ blend = NoBlend

----------------------------------------------------------------------------
(* Actions: one call of one public method *)

NoState == [fragments |-> <<>>, selected_fragment_id |-> None, group_selection |-> <<>>]

\* What `last` keeps of the call before the last one.
NoBefore == [op |-> "init", a |-> 0, b |-> 0, pre |-> NoState]

NoCall == [op |-> "init", id |-> None, ids |-> <<>>, a |-> 0, b |-> 0,
           ret |-> "None", emits |-> 0, pre |-> NoState, before |-> NoBefore]

\* The variables after a call with result r, and the record of the call:
\* method, arguments, return value, emissions, the state before the call and
\* what is kept of the call before it.
Effects(op, fragment_id, ids, a, b, r, before) ==
    /\ fragments' = r.s.fragments
    /\ selected_fragment_id' = r.s.selected_fragment_id
    /\ group_selection' = r.s.group_selection
    /\ last' = [op |-> op, id |-> fragment_id, ids |-> ids, a |-> a, b |-> b,
                ret |-> r.ret, emits |-> r.emits, pre |-> State, before |-> before]
    /\ UNCHANGED <<xvars, cvars>>

\* A call in a session of any length.
Call(op, fragment_id, ids, a, b, r) ==
    /\ Effects(op, fragment_id, ids, a, b, r, NoBefore)
    /\ UNCHANGED steps

\* A call in a session of at most MaxSteps calls.
Step(op, fragment_id, ids, a, b, r) ==
    /\ steps < MaxSteps
    /\ steps' = steps + 1
    /\ Effects(op, fragment_id, ids, a, b, r, NoBefore)

\* A group transform in a session of at most MaxSteps calls; it also keeps the
\* call before it (for the claims about two transforms in a row).
GroupCall(op, ids, a, b, r) ==
    /\ steps < MaxSteps
    /\ steps' = steps + 1
    /\ Effects(op, None, ids, a, b, r,
               [op |-> last.op, a |-> last.a, b |-> last.b, pre |-> last.pre])

AddFragmentFromImage ==
    /\ created < MaxFrags
    /\ Call("add_fragment_from_image", created + 1, <<>>, 0, 0,
            add_fragment_from_image(State, Fragment(created + 1)))
    /\ created' = created + 1
    /\ UNCHANGED <<gm_selected, saved, exported>>

SelectSingleFragment ==
    /\ \E fragment_id \in IdArgs :
          Call("select_single_fragment", fragment_id, <<>>, 0, 0,
               select_single_fragment(State, fragment_id))
    /\ UNCHANGED <<gm_selected, created, saved, exported>>

SelectGroup ==
    /\ \E fragment_ids \in IdLists :
          Call("select_group", None, fragment_ids, 0, 0, select_group(State, fragment_ids))
    /\ UNCHANGED <<gm_selected, created, saved, exported>>

ClearSelection ==
    /\ Call("clear_selection", None, <<>>, 0, 0, clear_selection(State))
    /\ UNCHANGED <<gm_selected, created, saved, exported>>

SetSelectedFragment ==
    /\ \E fragment_id \in IdArgs \cup {None} :
          Call("set_selected_fragment", fragment_id, <<>>, 0, 0,
               set_selected_fragment(State, fragment_id))
    /\ UNCHANGED <<gm_selected, created, saved, exported>>

RemoveFragment ==
    /\ \E fragment_id \in IdArgs :
          Call("remove_fragment", fragment_id, <<>>, 0, 0, remove_fragment(State, fragment_id))
    /\ UNCHANGED <<gm_selected, created, saved, exported>>

\* export_metadata changes nothing in the registry; the caller keeps the record.
ExportMetadata ==
    /\ saved' = export_metadata(State)
    /\ exported' = State
    /\ Call("export_metadata", None, <<>>, 0, 0, Result(State, 0, "dict"))
    /\ UNCHANGED <<gm_selected, created>>

\* The records a caller may load: the fragments of this session that a record
\* exported earlier can hold (default pose, in order of creation), with the
\* selected id it can carry.
Metadata ==
    {[fragments |-> [i \in 1..Len(q) |-> to_dict(Fragment(q[i]))],
      selected_fragment_id |-> sel, version |-> "1.0"] :
        q \in {r \in SeqsUpTo(1..created, created) : \A i \in 1..Len(r) - 1 : r[i] < r[i + 1]},
        sel \in 0..created}

ImportMetadata ==
    /\ \E metadata \in Metadata :
          Call("import_metadata", metadata.selected_fragment_id, Keys(metadata.fragments), 0, 0,
               import_metadata(State, metadata))
    /\ UNCHANGED <<gm_selected, created, saved, exported>>

\* metadata.get('fragments', []) of a record without fragments: the registry
\* is emptied, the selection state is left as it is.
EmptyMetadata == [fragments |-> <<>>, selected_fragment_id |-> None, version |-> "1.0"]

ImportEmptyMetadata ==
    /\ Call("import_metadata", EmptyMetadata.selected_fragment_id, <<>>, 0, 0,
            import_metadata(State, EmptyMetadata))
    /\ UNCHANGED <<gm_selected, created, saved, exported>>

\* The caller loads the record it kept.
ImportSavedMetadata ==
    /\ saved # NoMetadata
    /\ Call("import_metadata", saved.selected_fragment_id, Keys(saved.fragments), 1, 0,
            import_metadata(State, saved))
    /\ UNCHANGED <<gm_selected, created, saved, exported>>

----------------------------------------------------------------------------
(* Actions: one export call, step by step *)

\* The except clauses: progress_callback(0, "... failed"), return False.
Fail(events) ==
    /\ trace' = trace \o events \o Progress(job.progress_callback, 0)
    /\ outcome' = "False"
    /\ pc' = "failed"

\* export_pyramidal_tiff up to the choice of the export method: the filter of
\* the fragments, the two validations, the dispatch.
ExportPyramidalTiff ==
    /\ pc = "idle"
    /\ LET visible == visible_fragments(job.fragments, job.kinds)
       IN  IF visible = <<>> \/ job.selected_levels = <<>>
           THEN Fail(<<>>)
           ELSE IF job.export_method = "pyvips"
                THEN pc' = "pyvips" /\ UNCHANGED <<trace, outcome>>
                ELSE IF job.export_method = "tifffile"
                     THEN pc' = "levels" /\ UNCHANGED <<trace, outcome>>
                     ELSE Fail(<<>>)
    /\ UNCHANGED <<job, level_index, level_images, output_file>>
    /\ UNCHANGED <<fragments, selected_fragment_id, group_selection, gm_selected,
                   created, saved, exported, last, steps, cvars>>

\* _export_with_pyvips: the class defines no _calculate_composite_bounds_at_level,
\* so the call of line 115 raises AttributeError and the method's except clause
\* ends the export; the lines after 115 are never reached.
ExportWithPyvips ==
    /\ pc = "pyvips"
    /\ Fail(Progress(job.progress_callback, 5) \o << <<"bounds", 0, 0>> >>)
    /\ UNCHANGED <<job, level_index, level_images, output_file>>
    /\ UNCHANGED <<fragments, selected_fragment_id, group_selection, gm_selected,
                   created, saved, exported, last, steps, cvars>>

\* The list export_pyramidal_tiff made at its start (line 77) holds the
\* registry's Fragment objects, not copies: the objects as they are now.
Live(listed) == [i \in 1..Len(listed) |-> Get(fragments, listed[i].id)]

\* One pass of the loop of _export_with_tifffile_corrected.
ProcessLevel ==
    /\ pc = "levels"
    /\ levels_left(job.selected_levels, level_index)
    /\ LET level == job.selected_levels[level_index + 1]
           pass == process_level(Live(visible_fragments(job.fragments, job.kinds)), job.kinds,
                                 job.selected_levels, level_index, job.progress_callback)
       IN  /\ trace' = trace \o pass.events
           /\ level_images' =
                  IF pass.image = Nothing THEN level_images
                  ELSE [l \in DOMAIN level_images \cup {level} |->
                           IF l = level THEN pass.image ELSE level_images[l]]
    /\ level_index' = level_index + 1
    /\ UNCHANGED <<job, pc, output_file, outcome>>
    /\ UNCHANGED <<fragments, selected_fragment_id, group_selection, gm_selected,
                   created, saved, exported, last, steps, cvars>>

\* After the loop: `if not level_images: raise`, else progress 85.
FinishLevels ==
    /\ pc = "levels"
    /\ ~levels_left(job.selected_levels, level_index)
    /\ IF DOMAIN level_images = {}
       THEN Fail(<<>>)
       ELSE /\ trace' = trace \o Progress(job.progress_callback, 85)
            /\ pc' = "encoding"
            /\ UNCHANGED outcome
    /\ UNCHANGED <<job, level_index, level_images, output_file>>
    /\ UNCHANGED <<fragments, selected_fragment_id, group_selection, gm_selected,
                   created, saved, exported, last, steps, cvars>>

\* success = self._save_pyramidal_tiff(...); progress 100; return success.
SavePyramidalTiff ==
    /\ pc = "encoding"
    /\ LET written == _save_pyramidal_tiff(level_images, job.compression, job.encoder)
       IN  /\ trace' = trace
                       \o [i \in 1..Len(written.handed) |->
                              <<"write", written.handed[i].level, written.handed[i].channels>>]
                       \o Progress(job.progress_callback, 100)
           /\ output_file' = written.file
           /\ outcome' = written.ok
           /\ pc' = IF written.ok = "True" THEN "done" ELSE "failed"
    /\ UNCHANGED <<job, level_index, level_images>>
    /\ UNCHANGED <<fragments, selected_fragment_id, group_selection, gm_selected,
                   created, saved, exported, last, steps, cvars>>

----------------------------------------------------------------------------
(* Actions: per-fragment transforms *)

\* Integer angle arguments (rotate_fragment, set_fragment_transform).
Angles == {-450, -90, 90, 720}
\* Float angle arguments (set_fragment_rotation).
FloatAngles == {FloatAngle(-90, 0), FloatAngle(450, 0), FloatAngle(0, -1)}
\* The quarter turns the group controls request.
GroupAngles == {-90, 90}
\* Offsets (dx, dy): 50 pixels to the right; 2 pixels left and 3 down.
Deltas == {<<600, 0>>, <<-24, 36>>}
\* Positions (x, y): the origin; 200 pixels to the right.
Positions == {<<0, 0>>, <<2400, 0>>}
\* Argument combinations of set_fragment_transform.
Transforms ==
    {TransformArgs(TRUE, -90, FALSE, 0, 0, "None", "None"),
     TransformArgs(FALSE, 0, TRUE, 120, 240, "None", "True"),
     TransformArgs(TRUE, 450, TRUE, 0, 0, "True", "False")}

SetFragmentVisibility ==
    /\ \E fragment_id \in IdArgs, visible \in BOOLEAN :
          Step("set_fragment_visibility", fragment_id, <<>>, IF visible THEN 1 ELSE 0, 0,
               set_fragment_visibility(State, fragment_id, visible))
    /\ UNCHANGED <<gm_selected, created, saved, exported>>

SetFragmentPosition ==
    /\ \E fragment_id \in IdArgs, p \in Positions :
          Step("set_fragment_position", fragment_id, <<>>, p[1], p[2],
               set_fragment_position(State, fragment_id, p[1], p[2]))
    /\ UNCHANGED <<gm_selected, created, saved, exported>>

TranslateFragment ==
    /\ \E fragment_id \in IdArgs, d \in Deltas :
          Step("translate_fragment", fragment_id, <<>>, d[1], d[2],
               translate_fragment(State, fragment_id, d[1], d[2]))
    /\ UNCHANGED <<gm_selected, created, saved, exported>>

RotateFragment ==
    /\ \E fragment_id \in IdArgs, angle \in Angles :
          Step("rotate_fragment", fragment_id, <<>>, angle, 0,
               rotate_fragment(State, fragment_id, angle))
    /\ UNCHANGED <<gm_selected, created, saved, exported>>

SetFragmentRotation ==
    /\ \E fragment_id \in IdArgs, angle \in FloatAngles :
          Step("set_fragment_rotation", fragment_id, <<>>, angle.deg, angle.tiny,
               set_fragment_rotation(State, fragment_id, angle))
    /\ UNCHANGED <<gm_selected, created, saved, exported>>

FlipFragment ==
    /\ \E fragment_id \in IdArgs, horizontal \in BOOLEAN :
          Step("flip_fragment", fragment_id, <<>>, IF horizontal THEN 1 ELSE 0, 0,
               flip_fragment(State, fragment_id, horizontal))
    /\ UNCHANGED <<gm_selected, created, saved, exported>>

SetFragmentTransform ==
    /\ \E fragment_id \in IdArgs, t \in Transforms :
          Step("set_fragment_transform", fragment_id, <<>>, t.rotation, 0,
               set_fragment_transform(State, fragment_id, t))
    /\ UNCHANGED <<gm_selected, created, saved, exported>>

ResetFragmentTransform ==
    /\ \E fragment_id \in IdArgs :
          Step("reset_fragment_transform", fragment_id, <<>>, 0, 0,
               reset_fragment_transform(State, fragment_id))
    /\ UNCHANGED <<gm_selected, created, saved, exported>>

ResetAllTransforms ==
    /\ Step("reset_all_transforms", None, <<>>, 0, 0, reset_all_transforms(State))
    /\ UNCHANGED <<gm_selected, created, saved, exported>>

ApplySingleRotation ==
    /\ \E angle \in GroupAngles :
          Step("apply_single_rotation", None, <<>>, angle, 0, apply_single_rotation(State, angle))
    /\ UNCHANGED <<gm_selected, created, saved, exported>>

ApplySingleTranslation ==
    /\ \E d \in Deltas :
          Step("apply_single_translation", None, <<>>, d[1], d[2],
               apply_single_translation(State, d[1], d[2]))
    /\ UNCHANGED <<gm_selected, created, saved, exported>>

GetCompositeBounds ==
    /\ Call("get_composite_bounds", None, <<>>, 0, 0,
            Result(State, 0, get_composite_bounds(State)))
    /\ UNCHANGED <<gm_selected, created, saved, exported>>

----------------------------------------------------------------------------
(* Actions: group transforms of the registry and of the GroupManager *)

ApplyGroupRotation ==
    /\ has_group_selection(State) /\ Len(get_selected_fragments(State)) >= 2
          => OnGrid(fragments, get_selected_fragments(State))
    /\ \E angle \in GroupAngles :
          GroupCall("apply_group_rotation", group_selection, angle, 0,
                    apply_group_rotation(State, angle))
    /\ UNCHANGED <<gm_selected, created, saved, exported>>

ApplyGroupTranslation ==
    /\ \E d \in Deltas :
          GroupCall("apply_group_translation", group_selection, d[1], d[2],
                    apply_group_translation(State, d[1], d[2]))
    /\ UNCHANGED <<gm_selected, created, saved, exported>>

GMSetSelectedFragments ==
    /\ \E fragment_ids \in IdLists :
          /\ gm_selected' = gm_set_selected_fragments(fragment_ids)
          /\ Step("gm.set_selected_fragments", None, fragment_ids, 0, 0, Result(State, 0, "None"))
    /\ UNCHANGED <<created, saved, exported>>

GMClearSelection ==
    /\ gm_selected' = gm_clear_selection
    /\ Step("gm.clear_selection", None, <<>>, 0, 0, Result(State, 0, "None"))
    /\ UNCHANGED <<created, saved, exported>>

GMRotateGroup ==
    /\ gm_has_group_selection(gm_selected) /\ Len(gm_selected_fragments(fragments, gm_selected)) >= 2
          => OnGrid(fragments, gm_selected_fragments(fragments, gm_selected))
    /\ \E angle \in GroupAngles :
          GroupCall("gm.rotate_group", gm_selected, angle, 0,
                    Result([State EXCEPT !.fragments = rotate_group(gm_selected, fragments, angle)],
                           0, "None"))
    /\ UNCHANGED <<gm_selected, created, saved, exported>>

GMTranslateGroup ==
    /\ \E d \in Deltas :
          GroupCall("gm.translate_group", gm_selected, d[1], d[2],
                    Result([State EXCEPT !.fragments = translate_group(gm_selected, fragments, d[1], d[2])],
                           0, "None"))
    /\ UNCHANGED <<gm_selected, created, saved, exported>>

----------------------------------------------------------------------------
(* The registry from construction: adding, selecting, removing, saving and loading *)

Init ==
    /\ fragments = <<>>
    /\ selected_fragment_id = None
    /\ group_selection = <<>>
    /\ gm_selected = <<>>
    /\ created = 0
    /\ saved = NoMetadata
    /\ exported = NoState
    /\ last = NoCall
    /\ steps = 0
    /\ NoExport
    /\ NoComposite

Next ==
    \/ AddFragmentFromImage
    \/ SelectSingleFragment
    \/ SelectGroup
    \/ ClearSelection
    \/ SetSelectedFragment
    \/ RemoveFragment
    \/ ImportMetadata

Spec == Init /\ [][Next]_vars

----------------------------------------------------------------------------
(* A loaded workspace: per-fragment transforms *)

RECURSIVE Loaded(_)
\* The registry after n images were added: the first one is selected.
Loaded(n) ==
    IF n = 0 THEN NoState
    ELSE add_fragment_from_image(Loaded(n - 1), Fragment(n)).s

InitPose ==
    /\ fragments = Loaded(MaxFrags).fragments
    /\ selected_fragment_id \in {Loaded(MaxFrags).selected_fragment_id,
                                 clear_selection(Loaded(MaxFrags)).s.selected_fragment_id}
    /\ group_selection = <<>>
    /\ gm_selected = <<>>
    /\ created = MaxFrags
    /\ saved = NoMetadata
    /\ exported = NoState
    /\ last = NoCall
    /\ steps = 0
    /\ NoExport
    /\ NoComposite

NextPose ==
    \/ SetFragmentVisibility
    \/ SetFragmentPosition
    \/ TranslateFragment
    \/ RotateFragment
    \/ SetFragmentRotation
    \/ FlipFragment
    \/ SetFragmentTransform
    \/ ResetFragmentTransform
    \/ ResetAllTransforms
    \/ ApplySingleRotation
    \/ ApplySingleTranslation
    \/ GetCompositeBounds

SpecPose == InitPose /\ [][NextPose]_vars

----------------------------------------------------------------------------
(* A laid-out workspace with a selection: group transforms *)

RECURSIVE LaidOut(_, _)
\* The loaded registry with fragment k moved to column k, 101 pixels apart,
\* each one pixel (or, on a staircase, 19 pixels) below the one before.  The
\* offsets keep the centres of the groups, and of the groups after a quarter
\* turn, on whole units.
LaidOut(n, stairs) ==
    IF n = 0 THEN Loaded(MaxFrags)
    ELSE set_fragment_position(LaidOut(n - 1, stairs), n,
                               1212 * (n - 1),
                               IF stairs THEN 228 * (n - 1) ELSE 12 * (n - 1)).s

\* The id lists handed to select_group before the group transforms start.
GroupLists == SeqsUpTo(IdArgs, MaxIdList + 1)

InitGroup ==
    /\ \E stairs \in BOOLEAN, ids \in GroupLists, removed \in {None} \cup (1..MaxFrags) :
          LET s == remove_fragment(select_group(LaidOut(MaxFrags, stairs), ids).s, removed).s
          IN  /\ fragments = s.fragments
              /\ selected_fragment_id = s.selected_fragment_id
              /\ group_selection = s.group_selection
    /\ gm_selected = <<>>
    /\ created = MaxFrags
    /\ saved = NoMetadata
    /\ exported = NoState
    /\ last = NoCall
    /\ steps = 0
    /\ NoExport
    /\ NoComposite

NextGroup ==
    \/ ApplyGroupRotation
    \/ ApplyGroupTranslation
    \/ GMSetSelectedFragments
    \/ GMClearSelection
    \/ GMRotateGroup
    \/ GMTranslateGroup

SpecGroup == InitGroup /\ [][NextGroup]_vars

----------------------------------------------------------------------------
(* One export of a loaded registry *)

\* The registry's fragments as the caller hands them to the exporter: the
\* first n loaded fragments, those of `hidden` made invisible.
ExportFragments(n, hidden) ==
    [i \in 1..n |-> [Loaded(n).fragments[i] EXCEPT !.visible = (i \notin hidden)]]

\* The export calls: a registry of up to MaxFrags fragments, each with a
\* source file of one kind (a hidden fragment's file is a good one), the
\* selected levels, the compression, a progress callback or none, the export
\* method the constructor found, and what the encoder will do.
Jobs ==
    UNION {
        {[fragments |-> ExportFragments(n, hidden), kinds |-> kinds,
          selected_levels |-> selected_levels, compression |-> compression,
          progress_callback |-> progress_callback, export_method |-> export_method,
          encoder |-> encoder] :
            kinds \in {k \in [1..n -> SourceKinds] : \A i \in hidden : k[i] = "good"},
            selected_levels \in LevelLists, compression \in Compressions,
            progress_callback \in BOOLEAN, export_method \in ExportMethods,
            encoder \in Encoders} :
        <<n, hidden>> \in {nh \in (0..MaxFrags) \X (SUBSET (1..MaxFrags)) : nh[2] \subseteq 1..nh[1]}}

InitExport ==
    /\ job \in Jobs
    /\ fragments = job.fragments
    /\ selected_fragment_id = Loaded(Len(job.fragments)).selected_fragment_id
    /\ group_selection = <<>>
    /\ gm_selected = <<>>
    /\ created = Len(job.fragments)
    /\ saved = NoMetadata
    /\ exported = NoState
    /\ last = NoCall
    /\ steps = 0
    /\ pc = "idle"
    /\ level_index = 0
    /\ level_images = <<>>
    /\ trace = <<>>
    /\ output_file = "absent"
    /\ outcome = "none"
    /\ NoComposite

NextExport ==
    \/ ExportPyramidalTiff
    \/ ExportWithPyvips
    \/ ProcessLevel
    \/ FinishLevels
    \/ SavePyramidalTiff

SpecExport == InitExport /\ [][NextExport]_vars

----------------------------------------------------------------------------
(* An export of placed fragments, with the host's event loop at its yields *)

\* Number of registry calls the host makes during one export.
MaxYields == 1

\* Where the fragments of an export lie, in twelfths of a pixel: on whole, odd
\* and half pixels, left of and above zero.
Places == {<<0, 0>>, <<12, 0>>, <<24, 18>>, <<-6, 36>>}

\* The exports of MaxFrags visible fragments with readable files through
\* tifffile, with an encoder that works.
LiveJobs ==
    {[fragments |-> [i \in 1..MaxFrags |->
                        [Loaded(MaxFrags).fragments[i] EXCEPT !.x = at[i][1], !.y = at[i][2]]],
      kinds |-> [i \in 1..MaxFrags |-> "good"],
      selected_levels |-> selected_levels, compression |-> "LZW",
      progress_callback |-> progress_callback, export_method |-> "tifffile",
      encoder |-> "ok"] :
        at \in [1..MaxFrags -> Places], selected_levels \in LevelLists \ {<<>>},
        progress_callback \in BOOLEAN}

InitLive ==
    /\ job \in LiveJobs
    /\ fragments = job.fragments
    /\ selected_fragment_id = Loaded(MaxFrags).selected_fragment_id
    /\ group_selection = <<>>
    /\ gm_selected = <<>>
    /\ created = MaxFrags
    /\ saved = NoMetadata
    /\ exported = NoState
    /\ last = NoCall
    /\ steps = 0
    /\ pc = "idle"
    /\ level_index = 0
    /\ level_images = <<>>
    /\ trace = <<>>
    /\ output_file = "absent"
    /\ outcome = "none"
    /\ NoComposite

\* QApplication.processEvents() of line 330, reached at the start of every
\* pass of the loop when a progress callback was given: the host runs a
\* handler that calls a mutator of the registry.
ProcessEvents ==
    /\ pc = "levels"
    /\ job.progress_callback
    /\ levels_left(job.selected_levels, level_index)
    /\ steps < MaxYields
    /\ \/ TranslateFragment
       \/ RotateFragment
       \/ FlipFragment
       \/ SetFragmentVisibility

NextLive ==
    \/ ExportPyramidalTiff
    \/ ProcessLevel
    \/ FinishLevels
    \/ SavePyramidalTiff
    \/ ProcessEvents

SpecLive == InitLive /\ [][NextLive]_vars

----------------------------------------------------------------------------
(* A posed workspace: saving, emptying and loading *)

\* The laid-out registry with fragment 1 turned a quarter and mirrored, and
\* the last fragment hidden.
Posed(stairs, turned, hidden) ==
    LET a == LaidOut(MaxFrags, stairs)
        b == IF turned THEN flip_fragment(rotate_fragment(a, 1, 90).s, 1, TRUE).s ELSE a
    IN  IF hidden THEN set_fragment_visibility(b, MaxFrags, FALSE).s ELSE b

InitSave ==
    /\ \E stairs \in BOOLEAN, turned \in BOOLEAN, hidden \in BOOLEAN, ids \in GroupLists :
          LET s == select_group(Posed(stairs, turned, hidden), ids).s
          IN  /\ fragments = s.fragments
              /\ selected_fragment_id = s.selected_fragment_id
              /\ group_selection = s.group_selection
    /\ gm_selected = <<>>
    /\ created = MaxFrags
    /\ saved = NoMetadata
    /\ exported = NoState
    /\ last = NoCall
    /\ steps = 0
    /\ NoExport
    /\ NoComposite

NextSave ==
    \/ ExportMetadata
    \/ RemoveFragment
    \/ ImportEmptyMetadata
    \/ ImportSavedMetadata

SpecSave == InitSave /\ [][NextSave]_vars

----------------------------------------------------------------------------
(* The compositing of fragments onto one canvas *)

\* Colour values and alphas of fragment pixels, opacities in halves, and the
\* places of a fragment along one axis: before, on and after the canvas.
PixelValues == {40, 200}
Alphas == {0, 128, 255}
Opacities2 == {0, 1, 2}
Offsets == -1..CanvasWidth

\* The fragment images of one row: one pixel up to the width of the canvas.
FragmentImages ==
    {<<row>> : row \in SeqsUpTo({Pixel(v, a) : v \in PixelValues, a \in Alphas}, CanvasWidth)
                         \ {<<>>}}

\* One fragment of the loop of _render_composite_at_level_corrected.
Blend(fragment_image, x, y, opacity2) ==
    /\ steps' = steps + 1
    /\ canvas' = _composite_fragment_corrected(canvas, fragment_image, x, y, opacity2)
    /\ blend' = [pre |-> canvas, fragment_image |-> fragment_image, x |-> x, y |-> y,
                 opacity2 |-> opacity2]
    /\ UNCHANGED <<fragments, selected_fragment_id, group_selection, gm_selected,
                   created, saved, exported, last, xvars>>

\* A fragment of one row onto a canvas of one row.
CompositeFragment ==
    /\ steps < MaxComposites
    /\ \E fragment_image \in FragmentImages, x \in Offsets, opacity2 \in Opacities2 :
          Blend(fragment_image, x, 0, opacity2)

InitComposite ==
    /\ fragments = <<>>
    /\ selected_fragment_id = None
    /\ group_selection = <<>>
    /\ gm_selected = <<>>
    /\ created = 0
    /\ saved = NoMetadata
    /\ exported = NoState
    /\ last = NoCall
    /\ steps = 0
    /\ NoExport
    /\ canvas = Zeros(1, CanvasWidth)
    /\ blend = NoBlend

NextComposite == CompositeFragment

SpecComposite == InitComposite /\ [][NextComposite]_vars

----------------------------------------------------------------------------
(* The clipping of fragments to canvases of every shape *)

\* The fragment images of one colour, up to one pixel longer than the longest
\* canvas, and their places: from wholly before to wholly after the canvas.
OpaqueImages ==
    {[r \in 1..h |-> [c \in 1..w |-> Pixel(v, 255)]] :
        h \in 1..CanvasWidth + 1, w \in 1..CanvasWidth + 1, v \in PixelValues}
ClipOffsets == -(CanvasWidth + 1)..CanvasWidth

CompositeOpaqueFragment ==
    /\ steps < MaxComposites
    /\ \E fragment_image \in OpaqueImages, x \in ClipOffsets, y \in ClipOffsets :
          Blend(fragment_image, x, y, 2)

InitClip ==
    /\ fragments = <<>>
    /\ selected_fragment_id = None
    /\ group_selection = <<>>
    /\ gm_selected = <<>>
    /\ created = 0
    /\ saved = NoMetadata
    /\ exported = NoState
    /\ last = NoCall
    /\ steps = 0
    /\ NoExport
    /\ canvas \in {Zeros(height, width) : height \in 1..CanvasWidth, width \in 1..CanvasWidth}
    /\ blend = NoBlend

NextClip == CompositeOpaqueFragment

SpecClip == InitClip /\ [][NextClip]_vars

----------------------------------------------------------------------------
(* Claims about the registry from construction (Spec) *)

\* The ids of s.fragments whose `selected` flag is set.
Flagged(s) == {s.fragments[i].id : i \in {j \in 1..Len(s.fragments) : s.fragments[j].selected}}

\* The selection state: single id, group list, flagged fragments.
SelectionOf(s) == <<s.selected_fragment_id, s.group_selection, Flagged(s)>>

\* The entries of an id list that name a fragment of the registry s.
ValidIds(s, ids) == SelectSeq(ids, LAMBDA fid : Has(s.fragments, fid))

\* The fragments of the registry s that an id list names.
Named(s, ids) == {fid \in Range(ids) : Has(s.fragments, fid)}

\* C1: the single selection and the group selection are never both set, and
\* entering one kind of selection clears the other: after select_single_fragment
\* of a known id the group list is empty, after a select_group that results in
\* a group the single id is None.
C1_SelectionExclusive ==
    /\ selected_fragment_id = None \/ group_selection = <<>>
    /\ last.op \in {"select_single_fragment", "set_selected_fragment"}
          /\ Has(last.pre.fragments, last.id)
          => selected_fragment_id = last.id /\ group_selection = <<>>
    /\ last.op = "select_group" /\ Len(ValidIds(last.pre, last.ids)) >= 2
          => group_selection # <<>> /\ selected_fragment_id = None

\* C1 witness: a group was entered from a single selection, and a single
\* selection from a group.
C1_Witness ==
    \/ /\ last.op = "select_group"
       /\ last.pre.selected_fragment_id # None
       /\ group_selection # <<>>
       /\ selected_fragment_id = None
    \/ /\ last.op = "select_single_fragment"
       /\ last.pre.group_selection # <<>>
       /\ selected_fragment_id # None
       /\ group_selection = <<>>

\* C2: the group selection is empty or names at least 2 distinct fragments of
\* the registry.
C2_GroupNamesTwoFragments ==
    group_selection = <<>> \/ Cardinality(Named(State, group_selection)) >= 2

\* C3: select_group with an id list that names exactly 1 fragment of the
\* registry ends in the selection state of select_single_fragment on that id;
\* with a list that names none, in the selection state of clear_selection; a
\* group selection results only from a list that names 2 or more.
C3_SelectGroupDegrades ==
    last.op = "select_group" =>
        LET valid == Named(last.pre, last.ids)
        IN  /\ Cardinality(valid) = 1 =>
                  \A fid \in valid :
                      SelectionOf(State) = SelectionOf(select_single_fragment(last.pre, fid).s)
            /\ Cardinality(valid) = 0 =>
                  SelectionOf(State) = SelectionOf(clear_selection(last.pre).s)
            /\ group_selection # <<>> => Cardinality(valid) >= 2

\* C4: remove_fragment of an id not in the registry returns False, changes
\* nothing and notifies nobody; of an id in the registry it returns True, the
\* fragment is gone, one notification is emitted, and if the id was the single
\* selection the selected id is that of a remaining fragment, or None when
\* none remains.
C4_RemoveFragment ==
    last.op = "remove_fragment" =>
        IF ~Has(last.pre.fragments, last.id)
        THEN last.ret = "False" /\ State = last.pre /\ last.emits = 0
        ELSE /\ last.ret = "True"
             /\ ~Has(fragments, last.id)
             /\ Keys(fragments) = Keys(Del(last.pre.fragments, last.id))
             /\ last.emits = 1
             /\ last.pre.selected_fragment_id = last.id =>
                   IF fragments = <<>> THEN selected_fragment_id = None
                   ELSE Has(fragments, selected_fragment_id)

\* C4 witness: the selected fragment was removed and another one remains.
C4_Witness ==
    /\ last.op = "remove_fragment"
    /\ last.ret = "True"
    /\ last.pre.selected_fragment_id = last.id
    /\ fragments # <<>>

\* The calls whose no-op path C6 names: an unknown id, a group transform
\* without a group of two, selecting an unknown id.
C6_NoOpPath ==
    \/ /\ last.op \in {"select_single_fragment", "remove_fragment", "set_fragment_visibility",
                       "set_fragment_position", "translate_fragment", "rotate_fragment",
                       "set_fragment_rotation", "flip_fragment", "set_fragment_transform",
                       "reset_fragment_transform"}
       /\ ~Has(last.pre.fragments, last.id)
    \/ /\ last.op \in {"apply_group_rotation", "apply_group_translation"}
       /\ Cardinality(Named(last.pre, last.pre.group_selection)) < 2

\* C6: a call that changes the registry emits fragments_changed exactly once,
\* a call on a no-op path emits it zero times.
C6_EmitsExactlyOnce ==
    last.op # "init" =>
        /\ State # last.pre => last.emits = 1
        /\ C6_NoOpPath => last.emits = 0

\* C25: every id held in the selection state, the single selected id and
\* every element of the group selection, is the id of a fragment of the
\* registry, in every state the operations of the registry reach.
C25_SelectionNamesFragments ==
    /\ selected_fragment_id # None => Has(fragments, selected_fragment_id)
    /\ \A i \in 1..Len(group_selection) : Has(fragments, group_selection[i])

\* C26: a fragment's selected flag is set exactly when its id is among
\* get_selected_fragment_ids(), in every reachable state of the registry.
C26_FlagsMatchSelectedIds ==
    Flagged(State) = Range(get_selected_fragment_ids(State))

----------------------------------------------------------------------------
(* Claims about the per-fragment transforms (SpecPose) *)

\* C5: translate_fragment, rotate_fragment, set_fragment_rotation, flip_fragment
\* and set_fragment_position with an id that is not in the registry change no
\* fragment field and no selection state and emit no notification.
C5_UnknownIdNoOp ==
    /\ last.op \in {"translate_fragment", "rotate_fragment", "set_fragment_rotation",
                    "flip_fragment", "set_fragment_position"}
    /\ ~Has(last.pre.fragments, last.id)
    => State = last.pre /\ last.emits = 0

\* C5 witness: translate_fragment was called with an unknown id on a registry
\* that holds fragments.
C5_Witness ==
    /\ last.op = "translate_fragment"
    /\ ~Has(last.pre.fragments, last.id)
    /\ fragments # <<>>
    /\ last.a # 0

\* C7: every fragment's rotation is at least 0 and below 360.
C7_RotationInRange ==
    \A i \in 1..Len(fragments) : 0 <= fragments[i].rotation /\ fragments[i].rotation < 360

----------------------------------------------------------------------------
(* Claims about the group transforms (SpecGroup) *)

\* The pose of every fragment of the registry s.
Poses(s) == [i \in 1..Len(s.fragments) |->
                <<s.fragments[i].id, s.fragments[i].x, s.fragments[i].y, s.fragments[i].rotation>>]

\* C8: a group transform leaves the registry as it was whenever the group
\* selection (the GroupManager's id list) names fewer than 2 fragments of the
\* registry.
C8_NoGroupNoChange ==
    /\ last.op \in {"apply_group_rotation", "apply_group_translation"}
          /\ Cardinality(Named(last.pre, last.pre.group_selection)) < 2
          => State = last.pre
    /\ last.op \in {"gm.rotate_group", "gm.translate_group"}
          /\ Cardinality(Named(last.pre, last.ids)) < 2
          => State = last.pre

\* C9: a group rotation by +90 followed by one by -90, on a group of 2 or more
\* fragments, leaves every fragment's x, y and rotation as before the two calls.
C9_QuarterTurnRoundTrip ==
    /\ last.op \in {"apply_group_rotation", "gm.rotate_group"}
    /\ last.before.op = last.op
    /\ last.before.a = 90
    /\ last.a = -90
    /\ Cardinality(Named(last.before.pre,
                         IF last.op = "apply_group_rotation"
                         THEN last.before.pre.group_selection ELSE last.ids)) >= 2
    => Poses(State) = Poses(last.before.pre)

\* C10: with a group of 2 or more fragments, apply_group_translation(dx, dy)
\* adds (dx, dy) to the position of every member and changes nothing else.
C10_GroupTranslationAddsOffset ==
    /\ last.op = "apply_group_translation"
    /\ Cardinality(Named(last.pre, last.pre.group_selection)) >= 2
    => /\ Len(fragments) = Len(last.pre.fragments)
       /\ \A i \in 1..Len(fragments) :
             LET f == last.pre.fragments[i]
             IN  fragments[i] =
                     IF f.id \in Named(last.pre, last.pre.group_selection)
                     THEN [f EXCEPT !.x = f.x + last.a, !.y = f.y + last.b]
                     ELSE f
       /\ selected_fragment_id = last.pre.selected_fragment_id
       /\ group_selection = last.pre.group_selection

\* The members of the group the last group rotation was called on: the
\* fragments its id list names, each once, in registry order.
RotatedMembers ==
    LET ids == IF last.op = "apply_group_rotation" THEN last.pre.group_selection ELSE last.ids
    IN  SelectSeq(Keys(last.pre.fragments), LAMBDA fid : fid \in Range(ids))

\* The sums of the members' bounding-box centres in the registry F; the
\* centroid is these sums over the number of members.
CentreSums(F, members) ==
    <<SumSeq([i \in 1..Len(members) |-> center_x(Get(F, members[i]))]),
      SumSeq([i \in 1..Len(members) |-> center_y(Get(F, members[i]))])>>

\* C22: after a group rotation by angle a on a group of 2 or more fragments,
\* every member's rotation is its old rotation plus a modulo 360, and the
\* centre of its new bounding box is its old centre turned by a about the
\* centroid, the mean of the members' centres before the call (compared with
\* both sides multiplied by the number of members).
C22_GroupRotationTurnsAboutCentroid ==
    last.op \in {"apply_group_rotation", "gm.rotate_group"} /\ Len(RotatedMembers) >= 2
    => LET n == Len(RotatedMembers)
           sums == CentreSums(last.pre.fragments, RotatedMembers)
           cos_a == Cos90(last.a)
           sin_a == Sin90(last.a)
       IN  \A i \in 1..n :
               LET old == Get(last.pre.fragments, RotatedMembers[i])
                   new == Get(fragments, RotatedMembers[i])
                   rel_x == n * center_x(old) - sums[1]
                   rel_y == n * center_y(old) - sums[2]
               IN  /\ new.rotation = (old.rotation + last.a) % 360
                   /\ n * center_x(new) = sums[1] + rel_x * cos_a - rel_y * sin_a
                   /\ n * center_y(new) = sums[2] + rel_x * sin_a + rel_y * cos_a

RECURSIVE QuarterTurns(_, _)
\* The registry s after k calls of apply_group_rotation(90).
QuarterTurns(s, k) == IF k = 0 THEN s ELSE apply_group_rotation(QuarterTurns(s, k - 1), 90).s

\* C27: a group rotation by a multiple of 90 degrees leaves the centroid of
\* the group where it was, and four +90 rotations in a row of a group bring
\* every fragment back to its position and rotation.
C27_CentroidStaysFourTurnsRestore ==
    /\ last.op \in {"apply_group_rotation", "gm.rotate_group"} /\ Len(RotatedMembers) >= 2
       => CentreSums(fragments, RotatedMembers) = CentreSums(last.pre.fragments, RotatedMembers)
    /\ (/\ has_group_selection(State)
        /\ Len(get_selected_fragments(State)) >= 2
        /\ \A k \in 0..3 : OnGrid(QuarterTurns(State, k).fragments,
                                  get_selected_fragments(QuarterTurns(State, k))))
       => Poses(QuarterTurns(State, 4)) = Poses(State)

\* C30: for every registry state and every id list, repeated and unknown ids
\* included, select_group followed by apply_group_rotation or
\* apply_group_translation leaves every fragment with the x, y and rotation
\* that GroupManager.set_selected_fragments with the same list followed by
\* rotate_group or translate_group over all fragments leaves it with.  (The
\* rotations are compared where the centroids of both are whole units.)
C30_GroupImplementationsAgree ==
    \A ids \in GroupLists :
        LET chosen == select_group(State, ids).s
            members == get_selected_fragments(chosen)
            gm_ids == gm_set_selected_fragments(ids)
            gm_members == gm_selected_fragments(fragments, gm_ids)
        IN  /\ \A d \in Deltas :
                  Poses(apply_group_translation(chosen, d[1], d[2]).s)
                      = Poses([State EXCEPT !.fragments = translate_group(gm_ids, fragments, d[1], d[2])])
            /\ \A angle \in GroupAngles :
                  (/\ Len(members) >= 2 => OnGrid(chosen.fragments, members)
                   /\ Len(gm_members) >= 2 => OnGrid(fragments, gm_members))
                  => Poses(apply_group_rotation(chosen, angle).s)
                         = Poses([State EXCEPT !.fragments = rotate_group(gm_ids, fragments, angle)])

----------------------------------------------------------------------------
(* Claims about the composite bounds (SpecPose) *)

\* The bounding boxes of the visible fragments of the registry s.
VisibleBoxes(s) ==
    {get_bounding_box(s.fragments[i]) : i \in {j \in 1..Len(s.fragments) : s.fragments[j].visible}}

\* C11: get_composite_bounds returns (0,0,0,0) when the registry is empty or
\* holds no visible fragment; otherwise (min x, min y, max x+w, max y+h) over
\* the bounding boxes of the visible fragments and of no other fragment.
C11_CompositeBounds ==
    last.op = "get_composite_bounds" =>
        LET boxes == VisibleBoxes(last.pre)
            r == last.ret
        IN  /\ State = last.pre
            /\ IF boxes = {} THEN r = <<0, 0, 0, 0>>
               ELSE /\ \E b \in boxes : r[1] = b[1]
                    /\ \E b \in boxes : r[2] = b[2]
                    /\ \E b \in boxes : r[3] = b[1] + b[3]
                    /\ \E b \in boxes : r[4] = b[2] + b[4]
                    /\ \A b \in boxes : /\ r[1] <= b[1] /\ r[2] <= b[2]
                                        /\ r[3] >= b[1] + b[3] /\ r[4] >= b[2] + b[4]

\* C11 witness: the bounds were taken while an invisible fragment lay to the
\* right of every visible one.
C11_Witness ==
    /\ last.op = "get_composite_bounds"
    /\ VisibleBoxes(State) # {}
    /\ \E i \in 1..Len(fragments) :
          /\ ~fragments[i].visible
          /\ get_bounding_box(fragments[i])[1] > last.ret[3]

----------------------------------------------------------------------------
(* Claims about the export pipeline (SpecExport) *)

\* What the call did of one kind ("progress", "bounds", "load", "write"), in order.
Events(kind) == SelectSeq(trace, LAMBDA e : e[1] = kind)

\* The job holds a fragment that is visible and whose source file exists.
HasExportable ==
    \E i \in 1..Len(job.fragments) :
        job.fragments[i].visible /\ job.kinds[job.fragments[i].id] # "no_file"

\* C12: an export with an empty selected_levels list, or without a fragment
\* that is visible and has an existing source file, returns False before any
\* bounds computation, pixel load or write: no output file, no fragment changed.
C12_ValidationFailsFast ==
    (job.selected_levels = <<>> \/ ~HasExportable) /\ pc # "idle"
    => /\ pc = "failed"
       /\ outcome = "False"
       /\ Events("bounds") = <<>> /\ Events("load") = <<>> /\ Events("write") = <<>>
       /\ output_file = "absent"
       /\ fragments = job.fragments

\* C12 witness: an export of a registry whose only fragment is hidden has
\* failed, with levels selected and a working export method.
C12_Witness ==
    /\ pc = "failed"
    /\ job.export_method = "tifffile"
    /\ job.selected_levels # <<>>
    /\ ~HasExportable
    /\ job.fragments # <<>>

\* C13: an export goes Idle -> Validating -> per-level processing -> Encoding
\* -> Done, or to Failed: the encoder is reached only after validation passed
\* and every selected level was processed, and a finished export has exactly
\* one outcome, True when Done and False when Failed.
C13_ExportStateMachine ==
    /\ pc \in {"idle", "pyvips", "levels", "encoding", "done", "failed"}
    /\ (pc \in {"encoding", "done"} \/ Events("write") # <<>> \/ output_file # "absent")
       => /\ job.selected_levels # <<>> /\ HasExportable
          /\ level_index = Len(job.selected_levels)
          /\ \A k \in 1..Len(job.selected_levels) :
                \E i \in 1..Len(trace) : trace[i] = <<"bounds", job.selected_levels[k], 0>>
    /\ Events("write") # <<>> => pc \in {"done", "failed"}
    /\ outcome = "True" <=> pc = "done"
    /\ outcome = "False" <=> pc = "failed"
    /\ outcome = "none" <=> pc \in {"idle", "pyvips", "levels", "encoding"}

\* C13 witness: an export of two levels is Done and wrote both.
C13_Witness ==
    /\ pc = "done"
    /\ Len(job.selected_levels) = 2
    /\ Len(Events("write")) = 2

\* C14: the percentages handed to the progress callback within one export
\* never decrease.
C14_ProgressMonotonic ==
    LET progress == Events("progress")
    IN  \A i, j \in 1..Len(progress) : i < j => progress[i][2] <= progress[j][2]

\* The fragments of the job the per-level export loads successfully at a level.
Loadable(level) ==
    Keys(SelectSeq(job.fragments,
                   LAMBDA f : f.visible /\ job.kinds[f.id] \notin {"no_file", "no_pixels"}))

\* C15: in the per-level export every level image holds the fragments whose
\* load succeeded and none whose load failed, no level image holds zero
\* fragments, and with a working encoder the export fails if and only if no
\* selected level produced an image.
C15_LevelsSkipFailures ==
    /\ \A l \in DOMAIN level_images :
          /\ level_images[l].composited = Loadable(l)
          /\ level_images[l].composited # <<>>
    /\ (job.export_method = "tifffile" /\ job.encoder = "ok" /\ pc \in {"done", "failed"}
           /\ job.selected_levels # <<>> /\ HasExportable)
       => (outcome = "False" <=> DOMAIN level_images = {})

\* C16: a failed export leaves no file at output_path.
C16_NoPartialOutput ==
    outcome = "False" => output_file = "absent"

C18_JpegGetsFlattened ==
    job.compression = "JPEG"
    => \A i \in 1..Len(trace) : trace[i][1] = "write" => trace[i][3] = 3

\* C28: the progress callback receives the completion update (100) only in
\* runs that return True: an export that returned False, a failed final save
\* included, has emitted no update of 100.
C28_CompleteOnlyOnSuccess ==
    outcome = "False" => \A i \in 1..Len(trace) : trace[i] # <<"progress", 100, 0>>

\* C29: with the streaming (pyvips) strategy selected, validation passed,
\* readable sources and a working encoder, the finished export has computed
\* the level-0 bounds, loaded the fragments, written the file and returned True.
C29_StreamingExportSucceeds ==
    (/\ job.export_method = "pyvips"
     /\ job.selected_levels # <<>> /\ HasExportable
     /\ \A i \in 1..Len(job.fragments) : job.kinds[job.fragments[i].id] = "good"
     /\ job.encoder = "ok"
     /\ pc \in {"done", "failed"})
    => /\ outcome = "True"
       /\ pc = "done"
       /\ Events("bounds") # <<>> /\ Events("load") # <<>> /\ Events("write") # <<>>

----------------------------------------------------------------------------
(* Claims about the compositing (SpecComposite) *)

\* The canvas pixels the last composited fragment lies over, each with the
\* place of the fragment pixel above it.
Overlapped == {d \in 1..Len(canvas[1]) : d - blend.x \in 1..Len(blend.fragment_image[1])}

\* C19: compositing a fragment with opacity 1 and alpha 255 makes every
\* overlapped canvas pixel the fragment's pixel with full alpha, and
\* compositing a fragment with opacity 0 leaves every canvas pixel, colour and
\* alpha, as it was, whatever the canvas held before.
C19_OpaqueOccludesZeroKeeps ==
    blend # NoBlend =>
        /\ blend.opacity2 = 2 =>
              \A d \in Overlapped :
                  LET src == blend.fragment_image[1][d - blend.x]
                  IN  src.a = 255 => canvas[1][d] = Pixel(src.v, 255)
        /\ blend.opacity2 = 0 => canvas = blend.pre

----------------------------------------------------------------------------
(* Claims about the clipping (SpecClip) *)

\* The canvas pixels (row, column, counted from 1) inside the rectangle
\* [x, x+w) x [y, y+h) of the last composited fragment.
UnderFragment ==
    {rc \in (1..Len(canvas)) \X (1..Len(canvas[1])) :
        /\ rc[1] - 1 - blend.y \in 0..Len(blend.fragment_image) - 1
        /\ rc[2] - 1 - blend.x \in 0..Len(blend.fragment_image[1]) - 1}

\* The index ranges of one axis lie inside both buffers.
InsideBuffers(range, frag_len, comp_len) ==
    /\ 0 <= range.src1 /\ range.src2 <= frag_len
    /\ 0 <= range.dst1 /\ range.dst2 <= comp_len

\* C23: for every fragment size, canvas size and offset (x, y),
\* _composite_fragment_corrected changes no canvas pixel outside the
\* intersection of the fragment's rectangle with the canvas, the ranges it
\* indexes lie inside the fragment and inside the canvas, and it leaves the
\* whole canvas unchanged when the intersection is empty.
C23_WritesOnlyIntersection ==
    blend # NoBlend =>
        LET cols == intersection(Len(blend.fragment_image[1]), Len(blend.pre[1]), blend.x)
            rows == intersection(Len(blend.fragment_image), Len(blend.pre), blend.y)
        IN  /\ \A r \in 1..Len(canvas), c \in 1..Len(canvas[1]) :
                  <<r, c>> \notin UnderFragment => canvas[r][c] = blend.pre[r][c]
            /\ UnderFragment = {} => canvas = blend.pre
            /\ UnderFragment # {} =>
                  /\ InsideBuffers(cols, Len(blend.fragment_image[1]), Len(blend.pre[1]))
                  /\ InsideBuffers(rows, Len(blend.fragment_image), Len(blend.pre))
                  /\ UnderFragment = ((rows.dst1 + 1)..rows.dst2) \X ((cols.dst1 + 1)..cols.dst2)

\* A fragment that sticks out of the canvas on the left and at the bottom was
\* composited: it changed a pixel it covers and left another pixel alone.
C23_Witness ==
    /\ blend # NoBlend
    /\ blend.x < 0
    /\ blend.y > 0
    /\ blend.y + Len(blend.fragment_image) > Len(canvas)
    /\ \E rc \in UnderFragment : canvas[rc[1]][rc[2]] # blend.pre[rc[1]][rc[2]]
    /\ \E r \in 1..Len(canvas), c \in 1..Len(canvas[1]) : <<r, c>> \notin UnderFragment

----------------------------------------------------------------------------
(* Claims about saving and loading (SpecSave) *)

\* The persisted fields of a fragment, as the record of section 6 lists them
\* (w and h stand for the file the record names).
Persisted(f) ==
    <<f.id, f.x, f.y, f.rotation, f.flip_horizontal, f.flip_vertical, f.visible, f.w, f.h>>

\* The last call loaded the kept record into the emptied registry.
LoadedIntoEmpty ==
    /\ saved # NoMetadata
    /\ last.op = "import_metadata"
    /\ last.ids = Keys(saved.fragments)
    /\ last.pre.fragments = <<>>

----------------------------------------------------------------------------
(* Claims about an export of placed fragments (SpecLive) *)

\* The poses an image was rendered from: id, x, y, rotation and flips of the
\* fragments composited onto it.
RenderedFrom(image) ==
    [i \in 1..Len(image.placed) |->
        <<image.placed[i].id, image.placed[i].x, image.placed[i].y, image.placed[i].rotation,
          image.placed[i].flip_horizontal, image.placed[i].flip_vertical>>]

\* C21: all levels of one export are rendered from the same fragment poses,
\* also when a registry mutator ran at a yield point between two
\* level-processing steps of the export.
C21_LevelsShareOnePose ==
    \A l \in DOMAIN level_images, m \in DOMAIN level_images :
        RenderedFrom(level_images[l]) = RenderedFrom(level_images[m])

\* floor(n / d), d > 0.
Floor(n, d) == IF n >= 0 THEN n \div d ELSE -((-n + d - 1) \div d)

\* The least of a non-empty set of integers.
Least(S) == CHOOSE n \in S : \A m \in S : n <= m

\* C24: at every level L a fragment is placed in the level's canvas at its
\* level-0 (x, y) divided by 2^L and floored, minus the floored minimum origin
\* of the fragments of the canvas.
C24_OffsetsAreFlooredOrigins ==
    \A l \in DOMAIN level_images :
        LET placed == level_images[l].placed
            origin_x(i) == Floor(placed[i].x, Unit(l))
            origin_y(i) == Floor(placed[i].y, Unit(l))
        IN  \A i \in 1..Len(placed) :
                /\ placed[i].scaled_x = origin_x(i) - Least({origin_x(j) : j \in 1..Len(placed)})
                /\ placed[i].scaled_y = origin_y(i) - Least({origin_y(j) : j \in 1..Len(placed)})

====
